---- MODULE Spec2Model ----
(***************************************************************************)
(* Barbershop Booking API (src/main.py, src/schemas.py).                   *)
(*                                                                         *)
(* The state is the three MongoDB collections the handlers touch           *)
(* (db["barber"], db["service"], db["appointment"]), the last request      *)
(* handled with its response, and, for the interleaved specification, the  *)
(* position of every create_appointment request that is in flight.         *)
(*                                                                         *)
(* Strings stay strings: an appointment stores payload.barber_id, date and *)
(* time as given, the barber and service lookups go through ObjectId, and  *)
(* the slot list is formatted with strftime("%H:%M").                      *)
(* customer_name, customer_phone and notes take part in no decision and    *)
(* are left out of the records.                                            *)
(***************************************************************************)
EXTENDS Integers, Sequences, FiniteSets, TLC

VARIABLES barber, service, appointment, nextId, req, resp, pc, inflight, tr

vars == <<barber, service, appointment, nextId, req, resp, pc, inflight, tr>>

(***************************************************************************)
(* Bounds of the model.                                                    *)
(***************************************************************************)
\* most appointment documents ever inserted
MaxAppts == 2
\* create_appointment requests that can be in flight together
NProcs == 2
\* time_range is exercised on windows of up to MaxSpan minutes ...
MaxSpan == 40
\* ... and steps of 1..MaxStep minutes, next to the schema's own values
MaxStep == 12

\* datetime.utcnow() is one of two instants, enough to tell a rewritten
\* updated_at from one left alone
Instants == {1, 2}

(***************************************************************************)
(* ObjectId and its hex spelling.  A generated id is a natural number;     *)
(* str(ObjectId) is its lower-case hex spelling, and ObjectId(s) accepts   *)
(* the lower-case and the upper-case spelling alike (bytes.fromhex).       *)
(***************************************************************************)
ObjectIds == 1..(6 + MaxAppts)

\* str(ObjectId(n)): lower-case hex
ObjectIdStr(n) == "a" \o ToString(n)

\* the same 12 bytes spelled in upper-case hex
ObjectIdUpper(n) == "A" \o ToString(n)

\* the strings ObjectId accepts
WellFormedIds == UNION {{ObjectIdStr(n), ObjectIdUpper(n)} : n \in ObjectIds}

\* each accepted string's ObjectId
OidTable ==
    [s \in WellFormedIds |->
        CHOOSE n \in ObjectIds : s \in {ObjectIdStr(n), ObjectIdUpper(n)}]

\* ObjectId(s) does not raise
is_valid(s) == s \in WellFormedIds

\* oid(s) for a string ObjectId accepts
oid(s) == OidTable[s]

(***************************************************************************)
(* Times of day are minutes since midnight; strftime("%H:%M") spells them. *)
(***************************************************************************)
Pad2(n) == IF n < 10 THEN "0" \o ToString(n) ELSE ToString(n)

strftime(t) == Pad2((t \div 60) % 24) \o ":" \o Pad2(t % 60)

MinutesOfDay == 0..1439

HHMM == [t \in MinutesOfDay |-> strftime(t)]

\* the working-window strings barber documents hold
WindowStrings == {"09:00", "20:00"}

ParseTable == [s \in WindowStrings |-> CHOOSE t \in MinutesOfDay : HHMM[t] = s]

\* map(int, s.split(":")) and day.replace(hour=h, minute=m), in minutes
parse_hhmm(s) == ParseTable[s]

\* Appointment.time pattern ^\d{2}:\d{2}$ over the strings requests carry
time_pattern_ok(s) == s \in {"09:00", "09:30", "21:10"}

\* Appointment.date pattern ^\d{4}-\d{2}-\d{2}$ over the strings requests carry
date_pattern_ok(s) == s \in {"2024-01-05", "2024-01-06"}

\* datetime.strptime(date, "%Y-%m-%d") does not raise (it accepts unpadded fields)
strptime_ok(s) == s \in {"2024-01-05", "2024-01-06", "2024-1-5"}

(***************************************************************************)
(* time_range: the generator's yields, in order.                           *)
(***************************************************************************)
RECURSIVE time_range(_, _, _)
\* faulty variant: the loop test written < instead of <=
time_range_strict(start, end, step_min) ==
    IF start + step_min < end
    THEN <<start>> \o time_range(start + step_min, end, step_min)
    ELSE <<>>

time_range(start, end, step_min) ==
    IF start + step_min <= end
    THEN <<start>> \o time_range(start + step_min, end, step_min)
    ELSE <<>>

\* the slot_minutes barber documents hold
SlotMinutes == {30}

\* time_range on the windows barber documents can describe, computed once
DayTable ==
    [w \in {parse_hhmm(x) : x \in WindowStrings}
             \X {parse_hhmm(x) : x \in WindowStrings} \X SlotMinutes |->
        time_range(w[1], w[2], w[3])]

(***************************************************************************)
(* Documents.  A collection is the sequence of its documents in insertion  *)
(* order; find_one returns the first match.                                *)
(***************************************************************************)
\* Barber(...) with the schema's defaults for the working window
BarberDoc(n) ==
    [id |-> n, start_time |-> "09:00", end_time |-> "20:00", slot_minutes |-> 30]

ServiceDoc(n) == [id |-> n]

\* Appointment(**payload.model_dump(), status="scheduled") as stored
AppointmentDoc(n, p) ==
    [id |-> n, barber_id |-> p.barber_id, service_id |-> p.service_id,
     date |-> p.date, time |-> p.time, status |-> "scheduled", updated_at |-> 0]

\* Appointment(...) raises no ValidationError
validates(p) == date_pattern_ok(p.date) /\ time_pattern_ok(p.time)

\* db[coll].find_one({"_id": n}) finds a document
has_id(coll, n) == \E i \in DOMAIN coll : coll[i].id = n

\* create_document(collection, doc): the collection with doc inserted
create_document(coll, doc) == Append(coll, doc)

Response(status) == [status |-> status, id |-> "", slots |-> <<>>]

NoRequest == [op |-> "none"]

(***************************************************************************)
(* POST /seed                                                              *)
(***************************************************************************)
seed_data ==
    LET nb == IF Len(barber) = 0 THEN 2 ELSE 0
        ns == IF Len(service) = 0 THEN 3 ELSE 0
    IN  /\ barber' = IF nb = 0 THEN barber
                     ELSE create_document(create_document(barber, BarberDoc(nextId)),
                                          BarberDoc(nextId + 1))
        /\ service' = IF ns = 0 THEN service
                      ELSE create_document(
                               create_document(
                                   create_document(service, ServiceDoc(nextId + nb)),
                                   ServiceDoc(nextId + nb + 1)),
                               ServiceDoc(nextId + nb + 2))
        /\ nextId' = nextId + nb + ns
        /\ req' = [op |-> "seed"]
        /\ resp' = Response(200)
        /\ UNCHANGED <<appointment, pc, inflight, tr>>

(***************************************************************************)
(* GET /availability                                                       *)
(***************************************************************************)
\* the barber document find_one returns
find_barber(n) == barber[CHOOSE i \in DOMAIN barber : barber[i].id = n]

\* faulty variant: the query without its status filter
taken_times_any_status(barber_id, date) ==
    {appointment[i].time : i \in {j \in DOMAIN appointment :
        /\ appointment[j].barber_id = barber_id
        /\ appointment[j].date = date}}

\* set(a["time"] for a in apps), apps the scheduled ones of barber_id on date
taken_times(barber_id, date) ==
    {appointment[i].time : i \in {j \in DOMAIN appointment :
        /\ appointment[j].barber_id = barber_id
        /\ appointment[j].date = date
        /\ appointment[j].status = "scheduled"}}

\* the slots list built by the loop over time_range
free_slots(bdoc, barber_id, date) ==
    LET ts    == DayTable[<<parse_hhmm(bdoc.start_time), parse_hhmm(bdoc.end_time),
                            bdoc.slot_minutes>>]
        taken == taken_times(barber_id, date)
    IN  SelectSeq([i \in DOMAIN ts |-> HHMM[ts[i]]], LAMBDA st : st \notin taken)

availability_response(barber_id, date) ==
    IF ~is_valid(barber_id) THEN Response(400)
    ELSE IF ~has_id(barber, oid(barber_id)) THEN Response(404)
    ELSE IF ~strptime_ok(date) THEN Response(500)
    ELSE [status |-> 200, id |-> "",
          slots |-> free_slots(find_barber(oid(barber_id)), barber_id, date)]

availability(barber_id, date) ==
    /\ req' = [op |-> "availability", barber_id |-> barber_id, date |-> date]
    /\ resp' = availability_response(barber_id, date)
    /\ UNCHANGED <<barber, service, appointment, nextId, pc, inflight, tr>>

(***************************************************************************)
(* POST /appointments.  Each step is one database operation (or the final  *)
(* validation and insert); a step answers 0 to go on, or the HTTP status   *)
(* the request ends with.                                                  *)
(***************************************************************************)
barber_step(p) ==
    IF ~is_valid(p.barber_id) THEN 400
    ELSE IF ~has_id(barber, oid(p.barber_id)) THEN 404
    ELSE 0

service_step(p) ==
    IF ~is_valid(p.service_id) THEN 400
    ELSE IF ~has_id(service, oid(p.service_id)) THEN 404
    ELSE 0

\* faulty variant: no conflict query at all
slot_taken_never(p) == FALSE

\* faulty variant: the conflict query without its status filter
slot_taken_any_status(p) ==
    \E i \in DOMAIN appointment :
        /\ appointment[i].barber_id = p.barber_id
        /\ appointment[i].date = p.date
        /\ appointment[i].time = p.time

\* exists: find_one on barber_id, date, time and status "scheduled"
slot_taken(p) ==
    \E i \in DOMAIN appointment :
        /\ appointment[i].barber_id = p.barber_id
        /\ appointment[i].date = p.date
        /\ appointment[i].time = p.time
        /\ appointment[i].status = "scheduled"

exists_step(p) == IF slot_taken(p) THEN 409 ELSE 0

insert_step(p) == IF ~validates(p) THEN 500 ELSE 200

\* faulty variant: the conflict check made before the lookups
create_outcome_conflict_first(p) ==
    IF exists_step(p) # 0 THEN exists_step(p)
    ELSE IF barber_step(p) # 0 THEN barber_step(p)
    ELSE IF service_step(p) # 0 THEN service_step(p)
    ELSE insert_step(p)

\* faulty variant: times that are no generated slot are refused
create_outcome_slots_only(p) ==
    IF barber_step(p) # 0 THEN barber_step(p)
    ELSE IF service_step(p) # 0 THEN service_step(p)
    ELSE IF exists_step(p) # 0 THEN exists_step(p)
    ELSE IF p.time \notin {"09:00", "09:30"} THEN 409
    ELSE insert_step(p)

\* the status a request handled without interleaving ends with
create_outcome(p) ==
    IF barber_step(p) # 0 THEN barber_step(p)
    ELSE IF service_step(p) # 0 THEN service_step(p)
    ELSE IF exists_step(p) # 0 THEN exists_step(p)
    ELSE insert_step(p)

\* the request's last step with status st: insert on 200, and answer
finish(p, st) ==
    /\ st = 200 => Len(appointment) < MaxAppts
    /\ appointment' = IF st = 200
                      THEN create_document(appointment, AppointmentDoc(nextId, p))
                      ELSE appointment
    /\ nextId' = IF st = 200 THEN nextId + 1 ELSE nextId
    /\ req' = p
    /\ resp' = IF st = 200
               THEN [status |-> 200, id |-> ObjectIdStr(nextId), slots |-> <<>>]
               ELSE Response(st)

create_appointment(p) ==
    /\ finish(p, create_outcome(p))
    /\ UNCHANGED <<barber, service, pc, inflight, tr>>

(***************************************************************************)
(* DELETE /appointments/{appointment_id}                                   *)
(***************************************************************************)
\* faulty variant: the update filter also asks for status "scheduled"
matched_count_scheduled_only(n) ==
    IF \E i \in DOMAIN appointment :
           appointment[i].id = n /\ appointment[i].status = "scheduled"
    THEN 1 ELSE 0

\* res.matched_count of update_one({"_id": n}, ...)
matched_count(n) == IF has_id(appointment, n) THEN 1 ELSE 0

\* faulty variant: update_many with an empty filter
update_one_all(n, now) ==
    [i \in DOMAIN appointment |->
        [appointment[i] EXCEPT !.status = "cancelled", !.updated_at = now]]

\* faulty variant: the status flipped instead of set
update_one_toggle(n, now) ==
    [i \in DOMAIN appointment |->
        IF appointment[i].id = n
        THEN [appointment[i] EXCEPT
                 !.status = IF @ = "scheduled" THEN "cancelled" ELSE "scheduled",
                 !.updated_at = now]
        ELSE appointment[i]]

\* the collection after update_one({"_id": n}, {"$set": {status, updated_at}})
update_one(n, now) ==
    [i \in DOMAIN appointment |->
        IF appointment[i].id = n /\ \A j \in 1..(i - 1) : appointment[j].id # n
        THEN [appointment[i] EXCEPT !.status = "cancelled", !.updated_at = now]
        ELSE appointment[i]]

\* the status of the document update_one matches, before the update
status_before(appointment_id) ==
    IF is_valid(appointment_id) /\ has_id(appointment, oid(appointment_id))
    THEN appointment[CHOOSE i \in DOMAIN appointment :
                        appointment[i].id = oid(appointment_id)].status
    ELSE "absent"

\* req.found is history: what the request met, kept for the properties below
cancel_appointment(appointment_id, now) ==
    /\ req' = [op |-> "cancel", appointment_id |-> appointment_id,
               found |-> status_before(appointment_id)]
    /\ IF ~is_valid(appointment_id)
       THEN /\ resp' = Response(400)
            /\ UNCHANGED appointment
       ELSE /\ appointment' = update_one(oid(appointment_id), now)
            /\ resp' = IF matched_count(oid(appointment_id)) = 0
                       THEN Response(404) ELSE Response(200)
    /\ UNCHANGED <<barber, service, nextId, pc, inflight, tr>>

(***************************************************************************)
(* The requests the model sends.                                           *)
(***************************************************************************)
Payload(b, s, d, t) ==
    [op |-> "create", barber_id |-> b, service_id |-> s, date |-> d, time |-> t]

\* bookings that can succeed once the shop is seeded: a slot of barber 1, a
\* slot of barber 2 on another day, barber 1 under the upper-case spelling
\* of its id, and a time outside every working window
GoodPayloads ==
    { Payload("a1", "a3", "2024-01-05", "09:30"),
      Payload("a2", "a3", "2024-01-06", "09:00"),
      Payload("A1", "a3", "2024-01-05", "09:30"),
      Payload("a1", "a3", "2024-01-05", "21:10") }

\* bookings that cannot: unknown or malformed ids, a time the schema rejects
BadPayloads ==
    { Payload("a3", "a3", "2024-01-05", "09:30"),
      Payload("zz", "a1", "2024-01-05", "09:30"),
      Payload("a1", "a1", "2024-01-05", "09:30"),
      Payload("a1", "zz", "2024-01-05", "09:30"),
      Payload("a3", "zz", "2024-01-05", "09:30"),
      Payload("a1", "a3", "2024-01-05", "9:30") }

Payloads == GoodPayloads \cup BadPayloads

AppointmentIds == 6..(5 + MaxAppts)

\* every appointment id, one of them in upper case, a barber's id, no id at all
CancelIds ==
    {ObjectIdStr(n) : n \in AppointmentIds} \cup {ObjectIdUpper(6), ObjectIdStr(1), "zz"}

AvailabilityBarbers == {"a1", "A1", "a2", "a3", "zz"}

AvailabilityDates == {"2024-01-05", "2024-01-06", "2024-1-5", "05/01/2024"}

\* the availability queries requests make
AvailabilityQueries ==
    { <<"a1", "2024-01-05">>, <<"A1", "2024-01-05">>, <<"a2", "2024-01-06">>,
      <<"a1", "2024-01-06">>, <<"a3", "2024-01-05">>, <<"zz", "2024-01-05">>,
      <<"a1", "2024-1-5">>, <<"a1", "05/01/2024">> }

Procs == 1..NProcs

NoTR == [start |-> 0, end |-> 0, step_min |-> 1, out |-> <<>>, done |-> FALSE]

(***************************************************************************)
(* Spec: every request is handled without another one interleaving.        *)
(***************************************************************************)
Init ==
    /\ barber = <<>>
    /\ service = <<>>
    /\ appointment = <<>>
    /\ nextId = 1
    /\ req = NoRequest
    /\ resp = Response(0)
    /\ pc = [self \in Procs |-> "idle"]
    /\ inflight = [self \in Procs |-> NoRequest]
    /\ tr = NoTR

Seed == seed_data

Availability == \E q \in AvailabilityQueries : availability(q[1], q[2])

CreateAppointment == \E p \in Payloads : create_appointment(p)

CancelAppointment ==
    \E id \in CancelIds, now \in Instants : cancel_appointment(id, now)

Next == Seed \/ Availability \/ CreateAppointment \/ CancelAppointment

Spec == Init /\ [][Next]_vars

(***************************************************************************)
(* SpecConc: create_appointment requests interleave between their database *)
(* operations.  pc[self] is the operation request self performs next.      *)
(***************************************************************************)
\* the bookings sent concurrently: two spellings of one slot's request, another
\* slot, an unknown barber, an unknown service, a time the schema rejects
ConcPayloads ==
    { Payload("a1", "a3", "2024-01-05", "09:30"),
      Payload("a2", "a3", "2024-01-06", "09:00"),
      Payload("a3", "a3", "2024-01-05", "09:30"),
      Payload("a1", "a1", "2024-01-05", "09:30"),
      Payload("a1", "a3", "2024-01-05", "9:30") }

\* requests past their first operation and not yet answered
InFlight == {self \in Procs : pc[self] # "idle"}

\* request self goes on to operation next, or is answered with status st
step(self, st, next) ==
    IF st = 0
    THEN /\ pc' = [pc EXCEPT ![self] = next]
         /\ UNCHANGED <<appointment, nextId, req, resp, inflight>>
    ELSE /\ finish(inflight[self], st)
         /\ pc' = [pc EXCEPT ![self] = "idle"]
         /\ inflight' = [inflight EXCEPT ![self] = NoRequest]

\* faulty variant (the atomic conditional insert the code lacks): the insert
\* made only if the slot is still free
answer_if_free(self) ==
    /\ IF slot_taken(inflight[self])
       THEN finish(inflight[self], 409)
       ELSE finish(inflight[self], insert_step(inflight[self]))
    /\ pc' = [pc EXCEPT ![self] = "idle"]
    /\ inflight' = [inflight EXCEPT ![self] = NoRequest]

\* Appointment(...) and create_document: no look at the collection
answer(self) ==
    /\ finish(inflight[self], insert_step(inflight[self]))
    /\ pc' = [pc EXCEPT ![self] = "idle"]
    /\ inflight' = [inflight EXCEPT ![self] = NoRequest]

BarberLookup(self, p) ==
    /\ pc[self] = "idle"
    /\ Len(appointment) + Cardinality(InFlight) < MaxAppts
    /\ IF barber_step(p) = 0
       THEN /\ pc' = [pc EXCEPT ![self] = "service"]
            /\ inflight' = [inflight EXCEPT ![self] = p]
            /\ UNCHANGED <<appointment, nextId, req, resp>>
       ELSE /\ finish(p, barber_step(p))
            /\ UNCHANGED <<pc, inflight>>
    /\ UNCHANGED <<barber, service, tr>>

ServiceLookup(self) ==
    /\ pc[self] = "service"
    /\ step(self, service_step(inflight[self]), "exists")
    /\ UNCHANGED <<barber, service, tr>>

ExistsCheck(self) ==
    /\ pc[self] = "exists"
    /\ step(self, exists_step(inflight[self]), "insert")
    /\ UNCHANGED <<barber, service, tr>>

InsertAppointment(self) ==
    /\ pc[self] = "insert"
    /\ answer(self)
    /\ UNCHANGED <<barber, service, tr>>

ConcCreate ==
    \E self \in Procs :
        \/ \E p \in ConcPayloads : BarberLookup(self, p)
        \/ ServiceLookup(self)
        \/ ExistsCheck(self)
        \/ InsertAppointment(self)

NextConc == Seed \/ ConcCreate \/ CancelAppointment \/ Availability

SpecConc == Init /\ [][NextConc]_vars

(***************************************************************************)
(* SpecTR: time_range on its own, over windows and steps drawn from        *)
(* bounded sets.                                                           *)
(***************************************************************************)
TRStarts == {0, 540, 547, 1380}

\* windows of -3..MaxSpan minutes from each start with steps 1..MaxStep, and
\* whole working days with the steps the Barber schema allows (10..240)
TRInputs ==
    { x \in { <<s, s + d, k>> : s \in TRStarts, d \in (0 - 3)..MaxSpan, k \in 1..MaxStep } :
        x[2] \in MinutesOfDay }
        \cup { <<540, 1200, 30>>, <<540, 600, 30>>, <<540, 840, 10>>,
               <<540, 1200, 240>>, <<0, 1439, 60>>, <<600, 540, 30>>,
               <<540, 569, 30>>, <<540, 570, 30>>, <<545, 1195, 45>> }

InitTR ==
    /\ barber = <<>>
    /\ service = <<>>
    /\ appointment = <<>>
    /\ nextId = 1
    /\ req = NoRequest
    /\ resp = Response(0)
    /\ pc = [self \in Procs |-> "idle"]
    /\ inflight = [self \in Procs |-> NoRequest]
    /\ \E i \in TRInputs :
         tr = [start |-> i[1], end |-> i[2], step_min |-> i[3],
               out |-> <<>>, done |-> FALSE]

RunTimeRange ==
    /\ ~tr.done
    /\ tr' = [tr EXCEPT !.out = time_range(tr.start, tr.end, tr.step_min),
                        !.done = TRUE]
    /\ UNCHANGED <<barber, service, appointment, nextId, req, resp, pc, inflight>>

NextTR == RunTimeRange

SpecTR == InitTR /\ [][NextTR]_vars

(***************************************************************************)
(* Properties.  In an action formula the unprimed collections are the      *)
(* state a request met, req' is the request and resp' its response.        *)
(***************************************************************************)
SameSlot(a, p) ==
    a.barber_id = p.barber_id /\ a.date = p.date /\ a.time = p.time

\* the scheduled appointments on p's barber_id, date and time
ScheduledAt(p) ==
    {i \in DOMAIN appointment :
        SameSlot(appointment[i], p) /\ appointment[i].status = "scheduled"}

CancelledAt(p) ==
    {i \in DOMAIN appointment :
        SameSlot(appointment[i], p) /\ appointment[i].status = "cancelled"}

BarberExists(p) == is_valid(p.barber_id) /\ has_id(barber, oid(p.barber_id))

ServiceExists(p) == is_valid(p.service_id) /\ has_id(service, oid(p.service_id))

\* the request was answered 200 and exactly its appointment was inserted
Inserted(p) ==
    /\ resp'.status = 200
    /\ Len(appointment') = Len(appointment) + 1
    /\ SubSeq(appointment', 1, Len(appointment)) = appointment
    /\ LET a == appointment'[Len(appointment')]
       IN  /\ SameSlot(a, p)
           /\ a.service_id = p.service_id
           /\ a.status = "scheduled"
           /\ ~has_id(appointment, a.id)
           /\ resp'.id = ObjectIdStr(a.id)

AtMostOneScheduledPerSlot ==
    \A i, j \in DOMAIN appointment :
        (i # j /\ appointment[i].status = "scheduled"
               /\ appointment[j].status = "scheduled")
            => ~SameSlot(appointment[i], appointment[j])

C1_ConflictStep ==
    (req'.op = "create" /\ ScheduledAt(req') # {} /\ ServiceExists(req'))
        => (resp'.status = 409 /\ appointment' = appointment)

\* C1 (as amended): with requests handled one at a time, a booking for a
\* barber_id, date and time that already has a scheduled appointment, and
\* whose service_id names a stored service, is answered 409 and inserts
\* nothing; and no state has two scheduled appointments with the same
\* barber_id, date and time.
C1_SequentialNoDoubleBooking ==
    []AtMostOneScheduledPerSlot /\ [][C1_ConflictStep]_vars

\* C1 witness: a booking was answered 409 and its slot holds one scheduled
\* appointment.
C1_ConflictAnswered ==
    /\ req.op = "create"
    /\ resp.status = 409
    /\ Cardinality(ScheduledAt(req)) = 1

\* C1 as stated: every booking on a slot with a scheduled appointment is
\* answered 409, whatever its service_id.
C1_AsStated ==
    [][(req'.op = "create" /\ ScheduledAt(req') # {})
          => (resp'.status = 409 /\ appointment' = appointment)]_vars

\* C2: under interleaving, the insert is made without another look at the
\* collection: a request past its check that validates is answered 200 and
\* its appointment is inserted as scheduled, also when a scheduled
\* appointment for its slot has arrived since the check.
C2_InsertWithoutRecheck ==
    [][\A self \in Procs :
          (pc[self] = "insert" /\ pc'[self] = "idle" /\ validates(inflight[self]))
              => Inserted(inflight[self])]_vars

\* C2 witness: two appointments with the same barber_id, date and time are
\* scheduled at once.
C2_DoubleBooked ==
    \E i, j \in DOMAIN appointment :
        /\ i < j
        /\ appointment[i].status = "scheduled"
        /\ appointment[j].status = "scheduled"
        /\ SameSlot(appointment[i], appointment[j])

\* C3: time_range yields floor((end - start) / step) times when the window
\* holds a step and none when it does not; the i-th is start + (i-1)*step,
\* so the first is start, they increase by exactly step, and each fits in
\* the window; 09:00-20:00 by 30 gives 22, from "09:00" to "19:30".
C3_TimeRange ==
    tr.done =>
        LET n == Len(tr.out)
            d == tr.end - tr.start
        IN  /\ d >= tr.step_min => n = d \div tr.step_min
            /\ d < tr.step_min => n = 0
            /\ \A i \in 1..n :
                 /\ tr.out[i] = tr.start + (i - 1) * tr.step_min
                 /\ tr.out[i] >= tr.start
                 /\ tr.out[i] + tr.step_min <= tr.end
            /\ \A i \in 1..(n - 1) :
                 /\ tr.out[i] < tr.out[i + 1]
                 /\ tr.out[i + 1] - tr.out[i] = tr.step_min
            /\ n > 0 => tr.out[1] = tr.start
            /\ (tr.start = 540 /\ tr.end = 1200 /\ tr.step_min = 30)
                 => /\ n = 22
                    /\ strftime(tr.out[1]) = "09:00"
                    /\ strftime(tr.out[n]) = "19:30"

\* C3 witness: the run on 09:00-20:00 by 30 has ended with 22 times.
C3_WorkdayRun ==
    /\ tr.done
    /\ tr.start = 540 /\ tr.end = 1200 /\ tr.step_min = 30
    /\ Len(tr.out) = 22

\* the Slot Generator's sequence for the barber a well-formed id names
GeneratedSlots(barber_id) ==
    LET bdoc == find_barber(oid(barber_id))
        ts   == DayTable[<<parse_hhmm(bdoc.start_time), parse_hhmm(bdoc.end_time),
                           bdoc.slot_minutes>>]
    IN  [i \in DOMAIN ts |-> HHMM[ts[i]]]

Range(f) == {f[i] : i \in DOMAIN f}

\* a scheduled appointment of barber_id on date at time t exists
Booked(barber_id, date, t) ==
    \E i \in DOMAIN appointment :
        /\ appointment[i].barber_id = barber_id
        /\ appointment[i].date = date
        /\ appointment[i].time = t
        /\ appointment[i].status = "scheduled"

\* the generator's yields for that barber, in minutes
GeneratedTimes(barber_id) ==
    LET bdoc == find_barber(oid(barber_id))
    IN  time_range(parse_hhmm(bdoc.start_time), parse_hhmm(bdoc.end_time),
                   bdoc.slot_minutes)

\* gen without the times booked for barber_id on date, in gen's order
Unbooked(gen, barber_id, date) ==
    SelectSeq(gen, LAMBDA t : ~Booked(barber_id, date, t))

Answerable(barber_id, date) ==
    is_valid(barber_id) /\ has_id(barber, oid(barber_id)) /\ strptime_ok(date)

\* C4: for an existing barber and a date, availability answers with the
\* generated slots (strictly increasing times, spelled HH:MM), in the
\* generator's order, without exactly the
\* times of the scheduled appointments of that barber_id and date: a
\* generated slot is absent iff such an appointment exists now; the last
\* availability response in the state is that list too.
C4_Availability ==
    /\ \A b \in AvailabilityBarbers :
         (is_valid(b) /\ has_id(barber, oid(b))) =>
           LET gen  == GeneratedSlots(b)
               mins == GeneratedTimes(b)
           IN  /\ Len(gen) = Len(mins)
               /\ \A i \in DOMAIN mins : gen[i] = strftime(mins[i])
               /\ \A i \in 1..(Len(mins) - 1) : mins[i] < mins[i + 1]
               /\ \A d \in AvailabilityDates :
                    strptime_ok(d) =>
                      LET r   == availability_response(b, d)
                          got == Range(r.slots)
                      IN  /\ r.status = 200
                          /\ r.slots = Unbooked(gen, b, d)
                          /\ \A i \in DOMAIN gen :
                               gen[i] \notin got <=> Booked(b, d, gen[i])
    /\ (req.op = "availability" /\ Answerable(req.barber_id, req.date))
         => /\ resp.status = 200
            /\ resp.slots = Unbooked(GeneratedSlots(req.barber_id),
                                     req.barber_id, req.date)

\* C4 witness: availability was answered for a barber and date with "09:30"
\* missing from the list because of a scheduled appointment, while a
\* cancelled or foreign appointment is stored as well.
C4_SlotRemoved ==
    /\ req.op = "availability"
    /\ resp.status = 200
    /\ Booked(req.barber_id, req.date, "09:30")
    /\ "09:30" \notin Range(resp.slots)
    /\ Len(resp.slots) = 21
    /\ Len(appointment) = 2

C5_RebookStep ==
    (/\ req'.op = "create"
     /\ BarberExists(req') /\ ServiceExists(req')
     /\ CancelledAt(req') # {}
     /\ ScheduledAt(req') = {})
        => /\ Inserted(req')
           /\ \A i \in CancelledAt(req') : appointment'[i].status = "cancelled"

\* C5: a booking for the barber_id, date and time of a cancelled appointment,
\* with existing barber and service and no scheduled appointment on the
\* slot, is answered 200 and inserts a scheduled appointment; the cancelled
\* one stays stored as cancelled.
C5_RebookAfterCancel == [][C5_RebookStep]_vars

\* C5 witness: the last booking was answered 200 and its appointment stands
\* scheduled behind a cancelled one of the same slot.
C5_Rebooked ==
    /\ req.op = "create"
    /\ resp.status = 200
    /\ \E i, j \in DOMAIN appointment :
         /\ i < j
         /\ j = Len(appointment)
         /\ SameSlot(appointment[i], req) /\ SameSlot(appointment[j], req)
         /\ appointment[i].status = "cancelled"
         /\ appointment[j].status = "scheduled"

C6_NotFoundStep ==
    req'.op = "create" =>
        /\ (is_valid(req'.barber_id) /\ ~BarberExists(req'))
             => (resp'.status = 404 /\ appointment' = appointment)
        /\ (BarberExists(req') /\ is_valid(req'.service_id) /\ ~ServiceExists(req'))
             => (resp'.status = 404 /\ appointment' = appointment)

\* C6: a booking whose well-formed barber_id names no barber is answered 404
\* whatever its service_id; one whose barber exists and whose well-formed
\* service_id names no service is answered 404 whether or not its slot is
\* scheduled; neither changes the appointments.
C6_NotFoundBeforeConflict == [][C6_NotFoundStep]_vars

\* C6 witness: a booking with an unknown service was answered 404 although
\* its slot holds a scheduled appointment.
C6_NotFoundOnTakenSlot ==
    /\ req.op = "create"
    /\ resp.status = 404
    /\ BarberExists(req) /\ ~ServiceExists(req)
    /\ ScheduledAt(req) # {}

C7_StatusStep ==
    /\ Len(appointment') >= Len(appointment)
    /\ \A i \in DOMAIN appointment :
         /\ appointment'[i].id = appointment[i].id
         /\ appointment'[i].barber_id = appointment[i].barber_id
         /\ appointment'[i].date = appointment[i].date
         /\ appointment'[i].time = appointment[i].time
         /\ appointment'[i].status # appointment[i].status
              => (appointment[i].status = "scheduled"
                  /\ appointment'[i].status = "cancelled")
         /\ appointment[i].status = "cancelled"
              => appointment'[i].status = "cancelled"
    /\ \A i \in (DOMAIN appointment') \ (DOMAIN appointment) :
         appointment'[i].status = "scheduled"

\* C7: every status is scheduled or cancelled; a step keeps every stored
\* appointment with its id, barber_id, date and time, changes a status only
\* from scheduled to cancelled, leaves cancelled ones cancelled, and adds
\* appointments only as scheduled.
C7_StatusLifecycle ==
    /\ [](\A i \in DOMAIN appointment :
             appointment[i].status \in {"scheduled", "cancelled"})
    /\ [][C7_StatusStep]_vars

\* C7 witness: a cancellation was answered 200 for an appointment that was
\* cancelled already, with a scheduled one stored behind it.
C7_CancelledAndScheduled ==
    /\ req.op = "cancel"
    /\ req.found = "cancelled"
    /\ resp.status = 200
    /\ \E i, j \in DOMAIN appointment :
         /\ i < j
         /\ appointment[i].status = "cancelled"
         /\ appointment[j].status = "scheduled"

C8_CancelStep ==
    (req'.op = "cancel" /\ is_valid(req'.appointment_id)) =>
        LET n == oid(req'.appointment_id)
        IN  /\ (\E i \in DOMAIN appointment :
                   appointment[i].id = n /\ appointment[i].status = "scheduled")
                 => /\ resp'.status = 200
                    /\ DOMAIN appointment' = DOMAIN appointment
                    /\ \A i \in DOMAIN appointment :
                         IF appointment[i].id = n
                         THEN /\ appointment'[i].status = "cancelled"
                              /\ [appointment'[i] EXCEPT !.status = "scheduled",
                                                         !.updated_at = 0]
                                   = [appointment[i] EXCEPT !.updated_at = 0]
                         ELSE appointment'[i] = appointment[i]
            /\ ~has_id(appointment, n)
                 => (resp'.status = 404 /\ appointment' = appointment)

\* C8: cancelling a well-formed id of a scheduled appointment is answered 200,
\* sets that appointment's status to cancelled (and its updated_at) and
\* leaves every other appointment as it was; a well-formed id of no
\* appointment is answered 404 and changes nothing.
C8_CancelOne == [][C8_CancelStep]_vars

\* C8 witness: a scheduled appointment was cancelled, answered 200, while
\* another appointment is still scheduled.
C8_OneCancelled ==
    /\ req.op = "cancel"
    /\ req.found = "scheduled"
    /\ resp.status = 200
    /\ \E i, j \in DOMAIN appointment :
         /\ appointment[i].id = oid(req.appointment_id)
         /\ appointment[i].status = "cancelled"
         /\ appointment[j].status = "scheduled"

\* the collection without its updated_at values
WithoutUpdatedAt(appts) ==
    [i \in DOMAIN appts |-> [appts[i] EXCEPT !.updated_at = 0]]

C9_RecancelStep ==
    (/\ req'.op = "cancel"
     /\ is_valid(req'.appointment_id)
     /\ \E i \in DOMAIN appointment :
          /\ appointment[i].id = oid(req'.appointment_id)
          /\ appointment[i].status = "cancelled")
        => /\ resp'.status = 200
           /\ WithoutUpdatedAt(appointment') = WithoutUpdatedAt(appointment)

\* C9: cancelling an appointment that is cancelled already is answered 200
\* and leaves the collection as the first cancellation left it, updated_at
\* apart.
C9_RecancelSucceeds == [][C9_RecancelStep]_vars

\* C9 witness: a cancellation that met a cancelled appointment was answered
\* 200, and the appointment is cancelled, its updated_at the later instant.
C9_Recancelled ==
    /\ req.op = "cancel"
    /\ req.found = "cancelled"
    /\ resp.status = 200
    /\ \E i \in DOMAIN appointment :
         /\ appointment[i].id = oid(req.appointment_id)
         /\ appointment[i].status = "cancelled"
         /\ appointment[i].updated_at = 2

C10_CreateStep ==
    (/\ req'.op = "create"
     /\ is_valid(req'.barber_id) /\ is_valid(req'.service_id)
     /\ validates(req'))
        => /\ Inserted(req')
                <=> (BarberExists(req') /\ ServiceExists(req') /\ ScheduledAt(req') = {})
           /\ Inserted(req') \/ appointment' = appointment

\* a scheduled appointment whose time its barber's generator never yields
OffGrid(i) ==
    /\ appointment[i].status = "scheduled"
    /\ is_valid(appointment[i].barber_id)
    /\ has_id(barber, oid(appointment[i].barber_id))
    /\ appointment[i].time \notin Range(GeneratedSlots(appointment[i].barber_id))

\* the collection without its i-th appointment
Without(i) == [j \in 1..(Len(appointment) - 1) |->
                  IF j < i THEN appointment[j] ELSE appointment[j + 1]]

\* the availability answer for appointment i's barber_id and date lists what
\* it would list were appointment i not stored
RemovesNoSlot(i) ==
    LET b     == appointment[i].barber_id
        d     == appointment[i].date
        rest  == Without(i)
    IN  availability_response(b, d).slots
          = SelectSeq(GeneratedSlots(b),
                LAMBDA t : ~\E j \in DOMAIN rest :
                     /\ rest[j].barber_id = b /\ rest[j].date = d
                     /\ rest[j].status = "scheduled"
                     /\ rest[j].time = t)

\* C10: a booking with well-formed ids, date and time, handled without
\* interleaving, inserts exactly one scheduled appointment and is answered
\* 200 iff its barber and service exist and its slot has no scheduled
\* appointment, and otherwise inserts nothing, whether or not its time is a
\* generated slot; a scheduled appointment at a time the generator never
\* yields leaves the availability list as it is without it.
C10_CreateIffFree ==
    /\ [][C10_CreateStep]_vars
    /\ [](\A i \in DOMAIN appointment : OffGrid(i) => RemovesNoSlot(i))

\* C10 witness: a booking at 21:10, outside the 09:00-20:00 window, was
\* answered 200 and is scheduled, and availability lists all 22 slots.
C10_OffGridBooked ==
    /\ req.op = "create"
    /\ req.time = "21:10"
    /\ resp.status = 200
    /\ \E i \in DOMAIN appointment :
         /\ OffGrid(i)
         /\ SameSlot(appointment[i], req)
         /\ Len(availability_response(req.barber_id, req.date).slots) = 22

====
